---- MODULE Spec2Model ----
(***************************************************************************)
(* Guest CRUD service (src/src/index.ts): one SQLite table `guests` behind *)
(* five Hono handlers.  The table is a set of rows; every handler is one   *)
(* action, except PUT, which awaits the request body between its existence *)
(* lookup and its UPDATE and is therefore two steps (PutBegin, PutFinish)  *)
(* between which other requests may run.  tick is the parity of the number *)
(* of handler steps taken, so that two equal requests in a row with equal  *)
(* answers are still two steps.                                            *)
(*                                                                         *)
(* JavaScript values are records [k, s, n, d]: k is the typeof-like kind,  *)
(* s the characters of a string, and a number is n / 10^d (d = -1: NaN).   *)
(* Strings are sequences of one-character strings.  Path parameters range  *)
(* over digits, "-", "+", "." and letters a..c (no whitespace, exponent or *)
(* radix prefix).                                                          *)
(***************************************************************************)
EXTENDS Integers, Sequences, FiniteSets, TLC

VARIABLES guests, req, resp, stmts, awaiting, tick

vars == <<guests, req, resp, stmts, awaiting, tick>>

\* ---------------------------------------------------------------- bounds
MaxRows == 2
MaxId == 2
MaxInflight == 1
MaxNameLen == 2

\* ------------------------------------------------------ JavaScript values
JsUndefined == [k |-> "undefined", s |-> <<>>, n |-> 0, d |-> 0]
JsNull == [k |-> "null", s |-> <<>>, n |-> 0, d |-> 0]
JsString(chars) == [k |-> "string", s |-> chars, n |-> 0, d |-> 0]
JsNumber(num, digits) == [k |-> "number", s |-> <<>>, n |-> num, d |-> digits]
JsInt(i) == JsNumber(i, 0)
JsNaN == JsNumber(0, -1)

\* typeof v === "string"
IsString(v) == v.k = "string"

\* v ?? w
Coalesce(v, w) == IF v.k \in {"undefined", "null"} THEN w ELSE v

\* String.prototype.trim over the alphabet, whose only whitespace is " "
RECURSIVE TrimStart(_)
TrimStart(chars) ==
  IF chars # <<>> /\ Head(chars) = " " THEN TrimStart(Tail(chars)) ELSE chars

RECURSIVE TrimEnd(_)
TrimEnd(chars) ==
  IF chars # <<>> /\ chars[Len(chars)] = " "
  THEN TrimEnd(SubSeq(chars, 1, Len(chars) - 1))
  ELSE chars

\* mutant: trimStart() in place of trim()
TrimLeadingOnly(chars) == TrimStart(chars)

Trim(chars) == TrimEnd(TrimStart(chars))

\* ------------------------------------------------- Number(c.req.param(id))
DigitChars == <<"0", "1", "2", "3", "4", "5", "6", "7", "8", "9">>

DigitValue(ch) == (CHOOSE i \in 1..Len(DigitChars) : DigitChars[i] = ch) - 1

IsDigit(ch) == \E i \in 1..Len(DigitChars) : DigitChars[i] = ch

RECURSIVE DigitsValue(_)
DigitsValue(chars) ==
  IF chars = <<>> THEN 0
  ELSE 10 * DigitsValue(SubSeq(chars, 1, Len(chars) - 1))
       + DigitValue(chars[Len(chars)])

\* n / 10^d in lowest decimal terms
RECURSIVE Normalise(_, _)
Normalise(num, digits) ==
  IF digits > 0 /\ num % 10 = 0 THEN Normalise(num \div 10, digits - 1)
  ELSE JsNumber(num, digits)

\* StringToNumber on [sign] digits [. digits] | [sign] . digits, else NaN
ToNumber(chars) ==
  LET signed == chars # <<>> /\ chars[1] \in {"-", "+"}
      neg == chars # <<>> /\ chars[1] = "-"
      rest == IF signed THEN Tail(chars) ELSE chars
      dots == {i \in 1..Len(rest) : rest[i] = "."}
      wellFormed ==
        /\ \A i \in 1..Len(rest) : IsDigit(rest[i]) \/ rest[i] = "."
        /\ Cardinality(dots) <= 1
        /\ \E i \in 1..Len(rest) : IsDigit(rest[i])
      dot == IF dots = {} THEN Len(rest) + 1 ELSE CHOOSE i \in dots : TRUE
      whole == SubSeq(rest, 1, dot - 1)
      frac == SubSeq(rest, dot + 1, Len(rest))
      mantissa == DigitsValue(whole \o frac)
  IN IF ~wellFormed THEN JsNaN
     ELSE Normalise(IF neg THEN 0 - mantissa ELSE mantissa, Len(frac))

\* mutant: n >= 0 in place of n > 0
isNonNegativeInt(v) == v.k = "number" /\ v.d = 0 /\ v.n >= 0

\* Number.isInteger(n) && n > 0
isPositiveInt(v) == v.k = "number" /\ v.d = 0 /\ v.n > 0

\* ------------------------------------------------------------- validator
NameRequired == "name is required (non-empty string)"
PhoneType == "phone must be string if provided"
EmailType == "email must be string if provided"
AddressType == "address must be string if provided"

\* mutant: else-if chain, only the first violation is reported
validateGuestFirstOnly(body) ==
  IF ~IsString(body.name) \/ Trim(body.name.s) = <<>> THEN <<NameRequired>>
  ELSE IF body.phone # JsUndefined /\ ~IsString(body.phone) THEN <<PhoneType>>
  ELSE IF body.email # JsUndefined /\ ~IsString(body.email) THEN <<EmailType>>
  ELSE IF body.address # JsUndefined /\ ~IsString(body.address) THEN <<AddressType>>
  ELSE <<>>

validateGuest(body) ==
  (IF ~IsString(body.name) \/ Trim(body.name.s) = <<>>
   THEN <<NameRequired>> ELSE <<>>)
  \o (IF body.phone # JsUndefined /\ ~IsString(body.phone)
      THEN <<PhoneType>> ELSE <<>>)
  \o (IF body.email # JsUndefined /\ ~IsString(body.email)
      THEN <<EmailType>> ELSE <<>>)
  \o (IF body.address # JsUndefined /\ ~IsString(body.address)
      THEN <<AddressType>> ELSE <<>>)

\* ------------------------------------------------------------- datastore
Ids(table) == {g.guestid : g \in table}

MaxOf(S) == CHOOSE m \in S : \A x \in S : x <= m

\* rowid SQLite picks for a NULL INTEGER PRIMARY KEY
NextRowid(table) == IF table = {} THEN 1 ELSE MaxOf(Ids(table)) + 1

\* SELECT * FROM guests WHERE guestid = ?   (.get: the row, or none)
SqlSelect(table, v) ==
  {g \in table : v.k = "number" /\ v.d = 0 /\ g.guestid = v.n}

\* mutant: INSERT OR REPLACE, a supplied id overwrites the row that holds it
SqlInsertOrReplace(table, idv, name, phone, email, address) ==
  LET row(i) == [guestid |-> i, name |-> name, phone |-> phone,
                 email |-> email, address |-> address]
  IN IF idv = JsNull
     THEN [ok |-> TRUE, table |-> table \cup {row(NextRowid(table))},
           rowid |-> NextRowid(table), error |-> ""]
     ELSE IF idv.k # "number" \/ idv.d # 0
     THEN [ok |-> FALSE, table |-> table, rowid |-> 0,
           error |-> "datatype mismatch"]
     ELSE [ok |-> TRUE,
           table |-> {g \in table : g.guestid # idv.n} \cup {row(idv.n)},
           rowid |-> idv.n, error |-> ""]

\* INSERT INTO guests (guestid, name, phone, email, address) VALUES (...)
SqlInsert(table, idv, name, phone, email, address) ==
  LET row(i) == [guestid |-> i, name |-> name, phone |-> phone,
                 email |-> email, address |-> address]
  IN IF idv = JsNull
     THEN [ok |-> TRUE, table |-> table \cup {row(NextRowid(table))},
           rowid |-> NextRowid(table), error |-> ""]
     ELSE IF idv.k # "number" \/ idv.d # 0
     THEN [ok |-> FALSE, table |-> table, rowid |-> 0,
           error |-> "datatype mismatch"]
     ELSE IF idv.n \in Ids(table)
     THEN [ok |-> FALSE, table |-> table, rowid |-> 0,
           error |-> "UNIQUE constraint failed: guests.guestid"]
     ELSE [ok |-> TRUE, table |-> table \cup {row(idv.n)},
           rowid |-> idv.n, error |-> ""]

\* mutant: SET phone = COALESCE(?, phone), ...: a merge, not a replace
SqlUpdateMerge(table, name, phone, email, address, id) ==
  {IF g.guestid = id
   THEN [guestid |-> g.guestid, name |-> name,
         phone |-> Coalesce(phone, g.phone),
         email |-> Coalesce(email, g.email),
         address |-> Coalesce(address, g.address)]
   ELSE g : g \in table}

\* UPDATE guests SET name = ?, phone = ?, email = ?, address = ? WHERE guestid = ?
SqlUpdate(table, name, phone, email, address, id) ==
  {IF g.guestid = id
   THEN [guestid |-> g.guestid, name |-> name, phone |-> phone,
         email |-> email, address |-> address]
   ELSE g : g \in table}

\* DELETE FROM guests WHERE guestid = ?   (table afterwards, info.changes)
SqlDelete(table, id) ==
  [table |-> {g \in table : g.guestid # id},
   changes |-> Cardinality({g \in table : g.guestid = id})]

\* SELECT * FROM guests   (.all: the rows in rowid order)
RECURSIVE SqlSelectAll(_)
SqlSelectAll(table) ==
  IF table = {} THEN <<>>
  ELSE LET first == CHOOSE g \in table : \A h \in table : g.guestid <= h.guestid
       IN <<first>> \o SqlSelectAll(table \ {first})

\* ------------------------------------------------- requests and responses
NoBody == [json |-> "none", guestid |-> JsUndefined, name |-> JsUndefined,
           phone |-> JsUndefined, email |-> JsUndefined, address |-> JsUndefined]

\* a body c.req.json() rejects
InvalidJson == [NoBody EXCEPT !.json = "invalid"]

\* a body that parses to a falsy value (null, 0, false, "")
FalsyJson == [NoBody EXCEPT !.json = "falsy"]

GuestInput(guestid, name, phone, email, address) ==
  [json |-> "object", guestid |-> guestid, name |-> name, phone |-> phone,
   email |-> email, address |-> address]

Request(op, param, body) == [op |-> op, param |-> param, body |-> body]

NoRequest == Request("none", <<>>, NoBody)

Response(status, kind, message, errors, error, rows) ==
  [status |-> status, kind |-> kind, message |-> message, errors |-> errors,
   error |-> error, rows |-> rows]

\* the handler has not answered (yet)
NoResponse == Response(0, "none", "", <<>>, "", <<>>)

Message(status, message) == Response(status, "message", message, <<>>, "", <<>>)

\* c.json(row, status): a row that is undefined serialises to no body at all
Record(status, found) ==
  IF found = {} THEN Response(status, "undefined", "", <<>>, "", <<>>)
  ELSE Response(status, "record", "", <<>>, "", <<CHOOSE g \in found : TRUE>>)

BadId == Message(400, "guestid must be positive integer")
NotFound == Message(404, "guest not found")
BadJson == Message(400, "invalid JSON body")
ValidationError(errors) == Response(400, "message", "validation error", errors, "", <<>>)
InternalError(error) == Response(500, "message", "internal error", <<>>, error, <<>>)

\* ---------------------------------------------------------------- inputs
\* String(id): the path a client builds from an id
RECURSIVE NatToPath(_)
NatToPath(i) ==
  IF i < 10 THEN <<DigitChars[i + 1]>>
  ELSE NatToPath(i \div 10) \o <<DigitChars[(i % 10) + 1]>>

IdToPath(i) == IF i < 0 THEN <<"-">> \o NatToPath(0 - i) ELSE NatToPath(i)

IdInputs == (0 - 1)..MaxId

PathInputs ==
  {IdToPath(i) : i \in IdInputs}
  \cup {<<"1", ".", "5">>, <<"a", "b", "c">>, <<"1", ".", "0">>}

GuestIdInputs ==
  {JsUndefined, JsNull, JsNumber(15, 1)}
  \cup {JsInt(i) : i \in IdInputs}

Text(ch) == JsString(<<ch>>)

FieldInputs ==
  { GuestInput(JsUndefined, JsString(<<" ", "a", " ">>), JsUndefined, JsUndefined, JsUndefined),
    GuestInput(JsUndefined, JsString(<<"b">>), Text("p"), Text("e"), Text("d")),
    GuestInput(JsUndefined, JsUndefined, Text("p"), JsUndefined, JsUndefined),
    GuestInput(JsUndefined, JsString(<<" ">>), JsInt(7), JsNull, Text("d")) }

PostBodies ==
  {InvalidJson, FalsyJson}
  \cup {[b EXCEPT !.guestid = g] : b \in FieldInputs, g \in GuestIdInputs}

PutBodies ==
  {InvalidJson, FalsyJson}
  \cup {[b EXCEPT !.guestid = g] : b \in FieldInputs, g \in {JsUndefined, JsInt(MaxId)}}

\* awaiting[i]: the PUT handlers suspended at `await c.req.json()` whose id is i
RECURSIVE SumTo(_, _)
SumTo(f, i) == IF i = 0 THEN 0 ELSE f[i] + SumTo(f, i - 1)

Inflight == SumTo(awaiting, MaxId)

\* ------------------------------------------------------------------ Init
Init ==
  /\ guests = {}
  /\ req = NoRequest
  /\ resp = NoResponse
  /\ stmts = <<>>
  /\ awaiting = [i \in 1..MaxId |-> 0]
  /\ tick = 0

\* -------------------------------------------------------------- handlers
\* GET /api/guests
ListGuests ==
  /\ req' = Request("LIST", <<>>, NoBody)
  /\ tick' = 1 - tick
  /\ resp' = Response(200, "list", "", <<>>, "", SqlSelectAll(guests))
  /\ stmts' = <<"SELECT">>
  /\ UNCHANGED <<guests, awaiting>>

\* GET /api/guests/:id
GetGuest(param) ==
  LET id == ToNumber(param)
      row == SqlSelect(guests, id)
  IN /\ req' = Request("GET", param, NoBody)
     /\ tick' = 1 - tick
     /\ UNCHANGED <<guests, awaiting>>
     /\ IF ~isPositiveInt(id)
        THEN resp' = BadId /\ stmts' = <<>>
        ELSE /\ stmts' = <<"SELECT">>
             /\ resp' = IF row = {} THEN NotFound ELSE Record(200, row)

\* POST /api/guests
PostGuest(body) ==
  LET errors == validateGuest(body)
      id == body.guestid
      info == SqlInsert(guests, Coalesce(id, JsNull), JsString(Trim(body.name.s)),
                        Coalesce(body.phone, JsNull), Coalesce(body.email, JsNull),
                        Coalesce(body.address, JsNull))
      guestid == Coalesce(id, JsInt(info.rowid))
      created == SqlSelect(info.table, guestid)
  IN /\ req' = Request("POST", <<>>, body)
     /\ tick' = 1 - tick
     /\ UNCHANGED awaiting
     /\ IF body.json # "object"
        THEN resp' = BadJson /\ stmts' = <<>> /\ UNCHANGED guests
        ELSE IF errors # <<>>
        THEN resp' = ValidationError(errors) /\ stmts' = <<>> /\ UNCHANGED guests
        ELSE IF ~info.ok
        THEN /\ resp' = InternalError(info.error)
             /\ stmts' = <<"INSERT">>
             /\ UNCHANGED guests
        ELSE /\ Cardinality(info.table) <= MaxRows
             /\ info.rowid <= MaxId
             /\ guests' = info.table
             /\ stmts' = <<"INSERT", "SELECT">>
             /\ resp' = Record(201, created)

\* mutant: the body is awaited before the existence lookup
PutBeginAwaitsFirst(param) ==
  LET id == ToNumber(param)
  IN /\ req' = Request("PUT", param, NoBody)
     /\ tick' = 1 - tick
     /\ UNCHANGED guests
     /\ IF ~isPositiveInt(id)
        THEN resp' = BadId /\ stmts' = <<>> /\ UNCHANGED awaiting
        ELSE /\ id.n \in 1..MaxId
             /\ Inflight < MaxInflight
             /\ stmts' = <<>>
             /\ awaiting' = [awaiting EXCEPT ![id.n] = @ + 1]
             /\ resp' = NoResponse

\* PUT /api/guests/:id, up to `await c.req.json()`
PutBegin(param) ==
  LET id == ToNumber(param)
      existing == SqlSelect(guests, id)
  IN /\ req' = Request("PUT", param, NoBody)
     /\ tick' = 1 - tick
     /\ UNCHANGED guests
     /\ IF ~isPositiveInt(id)
        THEN resp' = BadId /\ stmts' = <<>> /\ UNCHANGED awaiting
        ELSE /\ stmts' = <<"SELECT">>
             /\ IF existing = {}
                THEN resp' = NotFound /\ UNCHANGED awaiting
                ELSE /\ Inflight < MaxInflight
                     /\ awaiting' = [awaiting EXCEPT ![id.n] = @ + 1]
                     /\ resp' = NoResponse

\* PUT /api/guests/:id, from the body's arrival on
PutFinish(i, body) ==
  LET id == JsInt(i)
      errors == validateGuest(body)
      table == SqlUpdate(guests, JsString(Trim(body.name.s)),
                         Coalesce(body.phone, JsNull), Coalesce(body.email, JsNull),
                         Coalesce(body.address, JsNull), id.n)
      updated == SqlSelect(table, id)
  IN /\ awaiting[i] > 0
     /\ awaiting' = [awaiting EXCEPT ![i] = @ - 1]
     /\ req' = Request("PUT", IdToPath(i), body)
     /\ tick' = 1 - tick
     /\ IF body.json # "object"
        THEN resp' = BadJson /\ stmts' = <<>> /\ UNCHANGED guests
        ELSE IF errors # <<>>
        THEN resp' = ValidationError(errors) /\ stmts' = <<>> /\ UNCHANGED guests
        ELSE /\ guests' = table
             /\ stmts' = <<"UPDATE", "SELECT">>
             /\ resp' = Record(200, updated)

\* mutant: info.changes is never looked at
DeleteGuestUnchecked(param) ==
  LET id == ToNumber(param)
      info == SqlDelete(guests, id.n)
  IN /\ req' = Request("DELETE", param, NoBody)
     /\ tick' = 1 - tick
     /\ UNCHANGED awaiting
     /\ IF ~isPositiveInt(id)
        THEN resp' = BadId /\ stmts' = <<>> /\ UNCHANGED guests
        ELSE /\ guests' = info.table
             /\ stmts' = <<"DELETE">>
             /\ resp' = Message(200, "deleted")

\* DELETE /api/guests/:id
DeleteGuest(param) ==
  LET id == ToNumber(param)
      info == SqlDelete(guests, id.n)
  IN /\ req' = Request("DELETE", param, NoBody)
     /\ tick' = 1 - tick
     /\ UNCHANGED awaiting
     /\ IF ~isPositiveInt(id)
        THEN resp' = BadId /\ stmts' = <<>> /\ UNCHANGED guests
        ELSE /\ guests' = info.table
             /\ stmts' = <<"DELETE">>
             /\ resp' = IF info.changes = 0 THEN NotFound
                        ELSE Message(200, "deleted")

Next ==
  \/ ListGuests
  \/ \E param \in PathInputs : GetGuest(param)
  \/ \E body \in PostBodies : PostGuest(body)
  \/ \E param \in PathInputs : PutBegin(param)
  \/ \E i \in 1..MaxId, body \in PutBodies : PutFinish(i, body)
  \/ \E param \in PathInputs : DeleteGuest(param)

Spec == Init /\ [][Next]_vars

\* ------------------------------------------- the validator on its own
NameAlphabet == {" ", "a"}

NameStrings == UNION {[1..len -> NameAlphabet] : len \in 0..MaxNameLen}

NameInputs == {JsUndefined, JsNull, JsInt(7)} \cup {JsString(chars) : chars \in NameStrings}

OptionalInputs == {JsUndefined, JsString(<<>>), Text("x"), JsInt(7), JsNull}

ValidatorInputs ==
  {GuestInput(JsUndefined, name, phone, email, address) :
     name \in NameInputs, phone \in OptionalInputs,
     email \in OptionalInputs, address \in OptionalInputs}

InitValidate ==
  /\ guests = {}
  /\ req \in {Request("VALIDATE", <<>>, body) : body \in ValidatorInputs}
  /\ resp = NoResponse
  /\ stmts = <<>>
  /\ awaiting = [i \in 1..MaxId |-> 0]
  /\ tick = 0

\* const errors = validateGuest(body)
Validate ==
  /\ resp = NoResponse
  /\ resp' = Response(0, "errors", "", validateGuest(req.body), "", <<>>)
  /\ tick' = 1 - tick
  /\ UNCHANGED <<guests, req, stmts, awaiting>>

NextValidate == Validate

SpecValidate == InitValidate /\ [][NextValidate]_vars

\* ------------------------------------------------ vocabulary of the claims
\* the body passes the validator
ValidBody(body) == body.json = "object" /\ validateGuest(body) = <<>>

AllSpaces(chars) == \A i \in 1..Len(chars) : chars[i] = " "

\* t is s without its leading and trailing blanks
IsTrimOf(t, s) ==
  /\ t = <<>> \/ (t[1] # " " /\ t[Len(t)] # " ")
  /\ \E i \in 0..Len(s) :
       /\ i + Len(t) <= Len(s)
       /\ SubSeq(s, i + 1, i + Len(t)) = t
       /\ AllSpaces(SubSeq(s, 1, i))
       /\ AllSpaces(SubSeq(s, i + Len(t) + 1, Len(s)))

OrNull(v) == IF v = JsUndefined THEN JsNull ELSE v

\* g is the record a valid body describes, stored under id
RowOf(g, id, body) ==
  /\ g.guestid = id
  /\ g.name.k = "string"
  /\ IsTrimOf(g.name.s, body.name.s)
  /\ g.phone = OrNull(body.phone)
  /\ g.email = OrNull(body.email)
  /\ g.address = OrNull(body.address)

Others(table, id) == {g \in table : g.guestid # id}

PositiveParams == {IdToPath(i) : i \in 1..MaxId}

\* zero, negative, fractional, non-numeric
NonPositiveParams == {<<"0">>, <<"-", "1">>, <<"1", ".", "5">>, <<"a", "b", "c">>}

SuppliesInt(body) == body.guestid.k = "number" /\ body.guestid.d = 0

\* ---------------------------------------------------------------- claims

\* C1: every stored guest has a positive guestid and no two stored guests
\* share a guestid, after any sequence of requests from the empty table.
C1_GuestIdPositiveUnique ==
  /\ \A g \in guests : g.guestid > 0
  /\ \A g, h \in guests : g.guestid = h.guestid => g = h

\* C2: a valid POST without guestid answers 201 with the one row it added,
\* and a GET by the returned id issued right after answers 200 with the
\* same record.
C2_AutoIdCreateThenGet ==
  [][ /\ (req'.op = "POST" /\ ValidBody(req'.body) /\ req'.body.guestid = JsUndefined)
         => /\ resp'.status = 201
            /\ resp'.kind = "record"
            /\ guests' \ guests = {resp'.rows[1]}
            /\ guests \subseteq guests'
      /\ (/\ req.op = "POST" /\ ValidBody(req.body) /\ req.body.guestid = JsUndefined
          /\ resp.status = 201 /\ resp.kind = "record"
          /\ req'.op = "GET" /\ req'.param = IdToPath(resp.rows[1].guestid))
         => /\ resp'.status = 200
            /\ resp'.rows = resp.rows ]_vars

\* C3: a valid POST that supplies a positive integer guestid not in the
\* table answers 201 with the record the body describes under that id
\* (trimmed name, absent optional fields null), adds exactly that row, and
\* a GET by that id issued right after answers 200 with the same record.
C3_SuppliedIdCreateThenGet ==
  [][ /\ (/\ req'.op = "POST" /\ ValidBody(req'.body) /\ SuppliesInt(req'.body)
          /\ req'.body.guestid.n > 0 /\ req'.body.guestid.n \notin Ids(guests))
         => /\ resp'.status = 201
            /\ resp'.kind = "record"
            /\ RowOf(resp'.rows[1], req'.body.guestid.n, req'.body)
            /\ guests' = guests \cup {resp'.rows[1]}
      /\ (/\ req.op = "POST" /\ ValidBody(req.body) /\ SuppliesInt(req.body)
          /\ req.body.guestid.n > 0
          /\ resp.status = 201 /\ resp.kind = "record"
          /\ req'.op = "GET" /\ req'.param = IdToPath(req.body.guestid.n))
         => /\ resp'.status = 200
            /\ resp'.kind = "record"
            /\ resp'.rows = resp.rows ]_vars

\* C3 witness: such a POST has answered 201 with a name it had to trim.
C3_Witness ==
  /\ req.op = "POST" /\ SuppliesInt(req.body) /\ req.body.guestid.n > 0
  /\ resp.status = 201 /\ resp.kind = "record"
  /\ resp.rows[1].name.s # req.body.name.s
  /\ resp.rows[1].phone = JsNull
  /\ Cardinality(guests) > 1

\* C4 as stated: a request answered 400, 404 or 500 leaves the table as it
\* was, and every POST that supplies a guestid already in the table is
\* answered 500 "internal error" and changes nothing.
C4_ErrorLeavesTable_AnyDuplicate ==
  [][ /\ resp'.status \in {400, 404, 500} => guests' = guests
      /\ (/\ req'.op = "POST" /\ req'.body.json = "object" /\ SuppliesInt(req'.body)
          /\ req'.body.guestid.n \in Ids(guests))
         => /\ resp'.status = 500
            /\ resp'.message = "internal error"
            /\ guests' = guests ]_vars

\* C4 amended: a request answered 400, 404 or 500 leaves the table as it
\* was, and a POST whose body passes the validator and supplies a guestid
\* already in the table is answered 500 "internal error" and changes nothing.
C4_ErrorLeavesTable ==
  [][ /\ resp'.status \in {400, 404, 500} => guests' = guests
      /\ (/\ req'.op = "POST" /\ ValidBody(req'.body) /\ SuppliesInt(req'.body)
          /\ req'.body.guestid.n \in Ids(guests))
         => /\ resp'.status = 500
            /\ resp'.message = "internal error"
            /\ guests' = guests ]_vars

\* C4 witness: a valid POST with a duplicate guestid has been answered 500.
C4_Witness ==
  /\ req.op = "POST" /\ ValidBody(req.body) /\ SuppliesInt(req.body)
  /\ req.body.guestid.n \in Ids(guests)
  /\ resp.status = 500
  /\ \E g \in guests : g.guestid = req.body.guestid.n /\ ~RowOf(g, g.guestid, req.body)

\* C5: a PUT that reaches its UPDATE with a valid body while its id is in
\* the table answers 200 with the record under the path id, which is the
\* one the body describes (absent optional fields null, the body's guestid
\* ignored); every other record and the set of ids are unchanged.
C5_PutIsFullReplace ==
  [][ (/\ req'.op = "PUT" /\ ValidBody(req'.body)
       /\ ToNumber(req'.param).n \in Ids(guests))
      => LET id == ToNumber(req'.param).n
         IN /\ resp'.status = 200
            /\ resp'.kind = "record"
            /\ RowOf(resp'.rows[1], id, req'.body)
            /\ {g \in guests' : g.guestid = id} = {resp'.rows[1]}
            /\ Others(guests', id) = Others(guests, id)
            /\ Ids(guests') = Ids(guests) ]_vars

\* C5 witness: a PUT whose body omits phone and carries another guestid has
\* replaced one of two records.
C5_Witness ==
  /\ req.op = "PUT" /\ ValidBody(req.body)
  /\ resp.status = 200 /\ resp.kind = "record"
  /\ SuppliesInt(req.body) /\ req.body.guestid.n # resp.rows[1].guestid
  /\ req.body.phone = JsUndefined /\ resp.rows[1].phone = JsNull
  /\ Cardinality(guests) > 1

\* C6: the lookup step of a PUT whose path id is a positive integer not in
\* the table answers 404 "guest not found" at once: the table is unchanged
\* and the handler does not go on to await, parse or validate the body.
C6_PutAbsentIs404 ==
  [][ (/\ req'.op = "PUT" /\ req'.body = NoBody
       /\ req'.param \in PositiveParams
       /\ ToNumber(req'.param).n \notin Ids(guests))
      => /\ resp' = NotFound
         /\ guests' = guests
         /\ awaiting' = awaiting ]_vars

\* C6 witness: a PUT for an absent id has been answered 404 while other
\* records are stored.
C6_Witness ==
  /\ req.op = "PUT" /\ req.body = NoBody /\ req.param \in PositiveParams
  /\ resp = NotFound
  /\ guests # {}
  /\ ToNumber(req.param).n \notin Ids(guests)

\* C7: a DELETE for a positive integer id in the table answers 200
\* "deleted", removes that id and leaves the other records; the same DELETE
\* issued right after answers 404 "guest not found" and changes nothing.
C7_DeleteTwice ==
  [][ /\ (/\ req'.op = "DELETE" /\ req'.param \in PositiveParams
          /\ ToNumber(req'.param).n \in Ids(guests))
         => /\ resp' = Message(200, "deleted")
            /\ guests' = Others(guests, ToNumber(req'.param).n)
      /\ (/\ req.op = "DELETE" /\ req.param \in PositiveParams /\ resp.status = 200
          /\ req'.op = "DELETE" /\ req'.param = req.param)
         => /\ resp' = NotFound
            /\ guests' = guests ]_vars

\* C7 witness: a DELETE has been answered 200 and other records remain.
C7_Witness ==
  /\ req.op = "DELETE" /\ req.param \in PositiveParams
  /\ resp = Message(200, "deleted")
  /\ ToNumber(req.param).n \notin Ids(guests)
  /\ guests # {}

\* C8: GET by id, PUT and DELETE with a path id that is zero, negative,
\* fractional or non-numeric answer 400 "guestid must be positive integer"
\* without executing any datastore statement.
C8_BadIdIs400 ==
  (req.op \in {"GET", "PUT", "DELETE"} /\ req.param \in NonPositiveParams)
  => /\ resp = Message(400, "guestid must be positive integer")
     /\ stmts = <<>>

\* C8 witness: DELETE /api/guests/0 has been answered 400 while a record
\* with guestid 0 is stored.
C8_Witness ==
  /\ req.op = "DELETE" /\ req.param = <<"0">>
  /\ resp.status = 400
  /\ 0 \in Ids(guests)

\* C9: the validator's list holds the name message exactly when name is
\* missing, not a string or blank; one message for each optional field that
\* is present and not a string and none for the others; in the order name,
\* phone, email, address; and is empty exactly when the input is valid.
C9_ValidatorCollectsAll ==
  resp.kind = "errors" =>
    LET body == req.body
        errors == resp.errors
        has(m) == \E i \in 1..Len(errors) : errors[i] = m
        nameBad == body.name.k # "string" \/ AllSpaces(body.name.s)
        bad(v) == v.k \notin {"undefined", "string"}
        rank(m) == CHOOSE r \in 1..4 :
                     <<NameRequired, PhoneType, EmailType, AddressType>>[r] = m
    IN /\ has(NameRequired) <=> nameBad
       /\ has(PhoneType) <=> bad(body.phone)
       /\ has(EmailType) <=> bad(body.email)
       /\ has(AddressType) <=> bad(body.address)
       /\ \A i \in 1..Len(errors) :
            errors[i] \in {NameRequired, PhoneType, EmailType, AddressType}
       /\ \A i, j \in 1..Len(errors) : i < j => rank(errors[i]) < rank(errors[j])
       /\ errors = <<>> <=>
            ~(nameBad \/ bad(body.phone) \/ bad(body.email) \/ bad(body.address))

\* C9 witness: the validator has reported all four violations at once.
C9_Witness ==
  /\ resp.kind = "errors"
  /\ Len(resp.errors) = 4
  /\ req.body.name.k = "string" /\ req.body.name.s # <<>>

\* C10: every PUT answered 200 returns the updated record, and at that
\* moment the table holds a record under the path id with the fields of the
\* PUT's body, whatever other requests ran while it awaited its body.
C10_PutAnswers200WithRecord ==
  (req.op = "PUT" /\ resp.status = 200)
  => /\ resp.kind = "record"
     /\ resp.rows[1] \in guests
     /\ RowOf(resp.rows[1], ToNumber(req.param).n, req.body)

====
